---------------------------- MODULE Spec2Model ----------------------------
(***************************************************************************)
(* Model of scripts/generate_audio.py: the markdown dialogue parser        *)
(* (parse_dialogue, clean_text) and the two synthesis/assembly pipelines   *)
(* (kokoro_generate, elevenlabs_generate).                                 *)
(*                                                                         *)
(* Text is a sequence of tokens.  A token is one character, or one atomic  *)
(* piece of text that no pattern of the program looks inside:              *)
(*   "MIC"     the interviewer glyph            (line 113)                 *)
(*   "MAN"     the first candidate glyph        (line 119, line 122)       *)
(*   "PERSON"  the second candidate glyph       (line 119)                 *)
(*   "ZWJPC"   the joiner+laptop tail of the candidate emoji sequence      *)
(*   "Interviewer", "Candidate", "StaffEngineer"   the label words         *)
(*   "LDQ" "RDQ" "LSQ" "RSQ"  the typographic quotation marks              *)
(*   "TAB"     a tab character,  "BT"  a backtick                            *)
(*   "DQ" "SQ" the straight double and single quotation marks              *)
(*   any other word ("Hello", "yes", ...) is plain text.                   *)
(***************************************************************************)
EXTENDS Integers, Sequences, FiniteSets, TLC

\* ------------------------------------------------------------------------
\* Character classes and basic string operations on token sequences
\* ------------------------------------------------------------------------

\* \s of the regular expressions, and what str.strip() removes
WS == {" ", "TAB"}

\* \d of the regular expressions
Digits == {"1", "2"}

RECURSIVE LStrip(_)
LStrip(s) ==
    IF s = <<>> \/ s[1] \notin WS THEN s ELSE LStrip(Tail(s))

RECURSIVE RStrip(_)
RStrip(s) ==
    IF s = <<>> \/ s[Len(s)] \notin WS THEN s ELSE RStrip(SubSeq(s, 1, Len(s) - 1))

\* str.strip()
Strip(s) == RStrip(LStrip(s))

\* str.startswith(p)
StartsWith(s, p) == Len(s) >= Len(p) /\ SubSeq(s, 1, Len(p)) = p

\* "tok" in line
Has(s, tok) == \E k \in 1..Len(s) : s[k] = tok

\* s[k:] with k a 1-based index
From(s, k) == SubSeq(s, k, Len(s))

\* first index >= k that does not hold a token of class, Len(s)+1 if none
RECURSIVE SkipClass(_, _, _)
SkipClass(s, k, class) ==
    IF k > Len(s) \/ s[k] \notin class THEN k ELSE SkipClass(s, k + 1, class)

\* first index >= k that holds a token of class, Len(s)+1 if none
RECURSIVE SkipNotClass(_, _, _)
SkipNotClass(s, k, class) ==
    IF k > Len(s) \/ s[k] \in class THEN k ELSE SkipNotClass(s, k + 1, class)

\* first index >= k that holds a token of class, 0 if none
RECURSIVE FindClass(_, _, _)
FindClass(s, k, class) ==
    IF k > Len(s) THEN 0
    ELSE IF s[k] \in class THEN k ELSE FindClass(s, k + 1, class)

\* s holds tok at each of the n places k .. k+n-1
RunAt(s, k, tok, n) ==
    k >= 1 /\ k + n - 1 <= Len(s) /\ \A d \in 0..(n - 1) : s[k + d] = tok

SetMax(S) == CHOOSE x \in S : \A y \in S : y <= x

\* ------------------------------------------------------------------------
\* clean_text
\* ------------------------------------------------------------------------

\* first index j >= k where a run of n tokens d starts, 0 if none
RECURSIVE FindRun(_, _, _, _)
FindRun(s, k, d, n) ==
    IF k + n - 1 > Len(s) THEN 0
    ELSE IF RunAt(s, k, d, n) THEN k ELSE FindRun(s, k + 1, d, n)

\* re.sub(D{n}(.+?)D{n}, \1): leftmost matches, the group as short as possible
RECURSIVE EmphasisSub(_, _, _)
EmphasisSub(s, d, n) ==
    IF s = <<>> THEN <<>>
    ELSE LET j == IF RunAt(s, 1, d, n) THEN FindRun(s, n + 2, d, n) ELSE 0
         IN  IF j # 0
             THEN SubSeq(s, n + 1, j - 1) \o EmphasisSub(From(s, j + n), d, n)
             ELSE <<s[1]>> \o EmphasisSub(Tail(s), d, n)

\* re.sub(BT([^BT]+)BT, \1), BT the backtick
RECURSIVE CodeSpanSub(_)
CodeSpanSub(s) ==
    IF s = <<>> THEN <<>>
    ELSE LET j == IF s[1] = "BT" THEN FindClass(s, 2, {"BT"}) ELSE 0
         IN  IF j >= 3
             THEN SubSeq(s, 2, j - 1) \o CodeSpanSub(From(s, j + 1))
             ELSE <<s[1]>> \o CodeSpanSub(Tail(s))

\* re.sub(\[([^\]]+)\]\([^\)]+\), \1)
RECURSIVE LinkSub(_)
LinkSub(s) ==
    IF s = <<>> THEN <<>>
    ELSE LET j == IF s[1] = "[" THEN FindClass(s, 2, {"]"}) ELSE 0
             m == IF j >= 3 /\ RunAt(s, j + 1, "(", 1)
                  THEN FindClass(s, j + 2, {")"}) ELSE 0
         IN  IF m # 0 /\ m >= j + 3
             THEN SubSeq(s, 2, j - 1) \o LinkSub(From(s, m + 1))
             ELSE <<s[1]>> \o LinkSub(Tail(s))

\* the two str.replace pairs for typographic quotes
StraightQuote(c) ==
    CASE c \in {"LDQ", "RDQ"} -> "DQ"
      [] c \in {"LSQ", "RSQ"} -> "SQ"
      [] OTHER -> c

StraightQuotes(s) == [k \in 1..Len(s) |-> StraightQuote(s[k])]

\* re.sub(\s+, " ")
RECURSIVE CollapseWs(_)
CollapseWs(s) ==
    IF s = <<>> THEN <<>>
    ELSE IF s[1] \in WS
         THEN <<" ">> \o CollapseWs(From(s, SkipClass(s, 1, WS)))
         ELSE <<s[1]>> \o CollapseWs(Tail(s))

clean_text(text) ==
    LET t1 == EmphasisSub(text, "*", 3)
        t2 == EmphasisSub(t1, "*", 2)
        t3 == EmphasisSub(t2, "*", 1)
        t4 == CodeSpanSub(t3)
        t5 == LinkSub(t4)
        t6 == EmphasisSub(t5, "_", 1)
        t7 == StraightQuotes(t6)
        t8 == CollapseWs(t7)
    IN  Strip(t8)

\* ------------------------------------------------------------------------
\* parse_dialogue: the nested helpers
\* ------------------------------------------------------------------------

\* SentenceEnd without the comma
SentenceEndNoComma == {".", "!", "?", ":"}

\* the tuple of result.endswith(...)
SentenceEnd == {".", "!", "?", ":", ","}

RECURSIVE JoinFrom(_, _)
JoinFrom(result, lines) ==
    IF lines = <<>> THEN result
    ELSE LET line == Head(lines)
             next == IF result = <<>> THEN line
                     ELSE IF result[Len(result)] \in SentenceEnd
                          THEN result \o <<" ">> \o line
                          ELSE result \o <<".", " ">> \o line
         IN  JoinFrom(next, Tail(lines))

join_lines(lines) == JoinFrom(<<>>, lines)

\* re.sub(^(\d+[.)]\s+|[-*+]\s+), "", line)
strip_list_marker(line) ==
    LET d == SkipClass(line, 1, Digits)
    IN  IF d > 1 /\ d + 1 <= Len(line) /\ line[d] \in {".", ")"} /\ line[d + 1] \in WS
        THEN From(line, SkipClass(line, d + 1, WS))
        ELSE IF Len(line) >= 2 /\ line[1] \in {"-", "*", "+"} /\ line[2] \in WS
             THEN From(line, SkipClass(line, 2, WS))
             ELSE line

\* The speaker value None
None == "none"

\* flush(): the segments list after the call
FlushSegments(segs, speaker, lines) ==
    IF speaker # None /\ lines # <<>>
    THEN LET text == clean_text(join_lines(lines))
         IN  IF Strip(text) # <<>> THEN Append(segs, <<speaker, text>>) ELSE segs
    ELSE segs

\* ------------------------------------------------------------------------
\* parse_dialogue: the tests of the loop body, in the order of the code
\* ------------------------------------------------------------------------

IsFenceLine(line) == StartsWith(Strip(line), <<"BT", "BT", "BT">>)

IsBlockquote(line) == StartsWith(line, <<">">>)

IsTableRow(line) == StartsWith(Strip(line), <<"|">>)

\* re.match(^-{3,}$, line.strip())
IsRule(line) ==
    LET t == Strip(line) IN Len(t) >= 3 /\ \A k \in 1..Len(t) : t[k] = "-"

IsHeading(line) == StartsWith(line, <<"#">>)

IsInterviewerLine(line) == Has(line, "MIC") /\ Has(line, "Interviewer")

IsCandidateLine(line) ==
    /\ (Has(line, "MAN") \/ Has(line, "PERSON"))
    /\ (Has(line, "Candidate") \/ Has(line, "StaffEngineer"))

\* Where MIC\s*\*\*Interviewer[^:]*:\*\*\s* matched at p ends (the index after
\* the match), 0 when it does not match at p
InterviewerLabelEnd(line, p) ==
    LET q == SkipClass(line, p + 1, WS)
        r == FindClass(line, q + 3, {":"})
    IN  IF /\ line[p] = "MIC"
           /\ RunAt(line, q, "*", 2)
           /\ RunAt(line, q + 2, "Interviewer", 1)
           /\ r # 0
           /\ RunAt(line, r + 1, "*", 2)
        THEN SkipClass(line, r + 3, WS)
        ELSE 0

\* Where MAN[^\s*]*\s*\*\*[^:]+:\*\*\s* matched at p ends, 0 when it does not
CandidateLabelEnd(line, p) ==
    LET q == SkipClass(line, SkipNotClass(line, p + 1, WS \cup {"*"}), WS)
        r == FindClass(line, q + 2, {":"})
    IN  IF /\ line[p] = "MAN"
           /\ RunAt(line, q, "*", 2)
           /\ r # 0
           /\ r >= q + 3
           /\ RunAt(line, r + 1, "*", 2)
        THEN SkipClass(line, r + 3, WS)
        ELSE 0

\* re.sub(.*MIC\s*\*\*Interviewer[^:]*:\*\*\s*, "", line).strip(): the greedy .*
\* takes the last place where the rest of the pattern matches
InterviewerText(line) ==
    LET ps == {p \in 1..Len(line) : InterviewerLabelEnd(line, p) # 0}
    IN  Strip(IF ps = {} THEN line
              ELSE From(line, InterviewerLabelEnd(line, SetMax(ps))))

\* re.sub(.*MAN[^\s*]*\s*\*\*[^:]+:\*\*\s*, "", line).strip()
CandidateText(line) ==
    LET ps == {p \in 1..Len(line) : CandidateLabelEnd(line, p) # 0}
    IN  Strip(IF ps = {} THEN line
              ELSE From(line, CandidateLabelEnd(line, SetMax(ps))))

\* current_lines = [text] if text else []
FirstFragment(text) == IF text # <<>> THEN <<text>> ELSE <<>>

\* the last branch of the loop: current_lines after an ordinary line
AppendFragment(speaker, lines, line) ==
    LET stripped == strip_list_marker(Strip(line))
    IN  IF speaker # None /\ stripped # <<>> THEN Append(lines, stripped) ELSE lines

\* LineKind without the in_code_block test of line 102
LineKindNoCodeTest(line, in_code) ==
    IF IsFenceLine(line) THEN "fence"
    ELSE IF IsBlockquote(line) THEN "blockquote"
    ELSE IF IsTableRow(line) THEN "table"
    ELSE IF IsRule(line) THEN "rule"
    ELSE IF IsHeading(line) THEN "heading"
    ELSE IF IsInterviewerLine(line) THEN "interviewer"
    ELSE IF IsCandidateLine(line) THEN "candidate"
    ELSE "other"

\* Which branch of the loop body takes the line (lines 99-128, first test
\* that succeeds)
LineKind(line, in_code) ==
    IF IsFenceLine(line) THEN "fence"
    ELSE IF in_code THEN "code"
    ELSE IF IsBlockquote(line) THEN "blockquote"
    ELSE IF IsTableRow(line) THEN "table"
    ELSE IF IsRule(line) THEN "rule"
    ELSE IF IsHeading(line) THEN "heading"
    ELSE IF IsInterviewerLine(line) THEN "interviewer"
    ELSE IF IsCandidateLine(line) THEN "candidate"
    ELSE "other"

\* ------------------------------------------------------------------------
\* parse_dialogue as a function of the whole document (used by the callers)
\* ------------------------------------------------------------------------

\* the locals of parse_dialogue before the loop
ParseStart ==
    [segments |-> <<>>, current_speaker |-> None, current_lines |-> <<>>,
     in_code_block |-> FALSE]

\* one iteration of the for loop
LoopBody(st, line) ==
    LET kind == LineKind(line, st.in_code_block)
        flushed == FlushSegments(st.segments, st.current_speaker, st.current_lines)
    IN  CASE kind = "fence" -> [st EXCEPT !.in_code_block = ~st.in_code_block]
          [] kind \in {"code", "blockquote", "table", "rule"} -> st
          [] kind = "heading" ->
                [st EXCEPT !.segments = flushed, !.current_speaker = None,
                           !.current_lines = <<>>]
          [] kind = "interviewer" ->
                [st EXCEPT !.segments = flushed, !.current_speaker = "interviewer",
                           !.current_lines = FirstFragment(InterviewerText(line))]
          [] kind = "candidate" ->
                [st EXCEPT !.segments = flushed, !.current_speaker = "candidate",
                           !.current_lines = FirstFragment(CandidateText(line))]
          [] OTHER ->
                [st EXCEPT !.current_lines =
                     AppendFragment(st.current_speaker, st.current_lines, line)]

RECURSIVE ParseLoop(_, _)
ParseLoop(st, doc) ==
    IF doc = <<>> THEN st ELSE ParseLoop(LoopBody(st, Head(doc)), Tail(doc))

\* parse_dialogue(md_text), md_text given as its sequence of lines
parse_dialogue(doc) ==
    LET st == ParseLoop(ParseStart, doc)
    IN  FlushSegments(st.segments, st.current_speaker, st.current_lines)

\* ------------------------------------------------------------------------
\* Bounds and inputs
\* ------------------------------------------------------------------------

\* longest document parsed line by line
MaxLines == 4

L_IntHello ==
    <<"MIC", " ", "*", "*", "Interviewer", ":", "*", "*", " ", "Hello", ".">>
L_IntList ==
    <<"MIC", " ", "*", "*", "Interviewer", ":", "*", "*", " ", "-", " ", "Why", "?">>
L_IntBare ==
    <<"MIC", " ", "*", "*", "Interviewer", ":", "*", "*">>
L_CandHi ==
    <<"MAN", "ZWJPC", " ", "*", "*", "Candidate", ":", "*", "*", " ", "Hi">>
L_CandPerson ==
    <<"PERSON", " ", "*", "*", "StaffEngineer", ":", "*", "*", " ", "Sure", "!">>
L_Fence == <<"BT", "BT", "BT", "python">>
L_Heading == <<"#", "#", " ", "Part">>
L_Quote == <<">", " ", "MIC", " ", "Interviewer", " ", "tip">>
L_Table == <<" ", "|", " ", "MAN", " ", "Candidate", " ", "|">>
L_Rule == <<"-", "-", "-">>
L_Item == <<" ", "1", ".", " ", "first", ",">>
L_Span == <<"BT", " ", "BT">>

\* the lines a document is made of
LineSet ==
    {L_IntHello, L_IntList, L_IntBare, L_CandHi, L_CandPerson, L_Fence, L_Heading,
     L_Quote, L_Table, L_Rule, L_Item, L_Span}

\* LineKind of every line of LineSet, worked out once
KindTable ==
    [line \in LineSet |-> [in_code \in BOOLEAN |-> LineKind(line, in_code)]]

\* ------------------------------------------------------------------------
\* State
\* ------------------------------------------------------------------------

VARIABLES
    pc,               \* where the program is
    lines_read,       \* the lines of md_text.splitlines() the loop has taken so far
    segments,         \* parse_dialogue: segments
    current_speaker,  \* parse_dialogue: current_speaker
    current_lines,    \* parse_dialogue: current_lines
    in_code_block,    \* parse_dialogue: in_code_block
    joined,           \* flush: the argument and value of its last join_lines call
    backend,          \* main: args.backend
    pause_ms,         \* main: args.pause
    md_text,          \* *_generate: the lines of notes_path.read_text()
    i,                \* *_generate: the loop index of the synthesis loop
    clips,            \* *_generate: clips
    warnings,         \* *_generate: the segment numbers of the warnings on stderr
    calls,            \* the synthesis calls made so far and what each returned
    combined,         \* *_generate: combined, the audio written to output_path
    exit_status       \* the status of sys.exit, 0 while none was called

parser_vars ==
    <<lines_read, segments, current_speaker, current_lines, in_code_block, joined>>

generate_vars ==
    <<backend, pause_ms, md_text, i, clips, warnings, calls, combined, exit_status>>

vars == <<pc, parser_vars, generate_vars>>

\* ------------------------------------------------------------------------
\* parse_dialogue, one action per branch of the loop body
\* ------------------------------------------------------------------------

InitParse ==
    /\ pc = "loop"
    /\ lines_read = <<>>
    /\ segments = <<>>
    /\ current_speaker = None
    /\ current_lines = <<>>
    /\ in_code_block = FALSE
    /\ joined = [lines |-> <<>>, text |-> <<>>]
    /\ backend = "none"
    /\ pause_ms = 0
    /\ md_text = <<>>
    /\ i = 0
    /\ clips = <<>>
    /\ warnings = <<>>
    /\ calls = <<>>
    /\ combined = <<>>
    /\ exit_status = 0

\* the loop takes the next line of the document
Takes(line, kind) ==
    /\ pc = "loop"
    /\ Len(lines_read) < MaxLines
    /\ KindTable[line][in_code_block] = kind
    /\ lines_read' = Append(lines_read, line)
    /\ pc' = "loop"
    /\ UNCHANGED generate_vars

\* flush(), lines 89-96
flush ==
    /\ segments' = FlushSegments(segments, current_speaker, current_lines)
    /\ joined' = IF current_speaker # None /\ current_lines # <<>>
                 THEN [lines |-> current_lines, text |-> join_lines(current_lines)]
                 ELSE joined

FenceLine ==
    \E line \in LineSet :
        /\ Takes(line, "fence")
        /\ in_code_block' = ~in_code_block
        /\ UNCHANGED <<segments, current_speaker, current_lines, joined>>

CodeBlockLine ==
    \E line \in LineSet :
        /\ Takes(line, "code")
        /\ UNCHANGED <<segments, current_speaker, current_lines, in_code_block, joined>>

BlockquoteLine ==
    \E line \in LineSet :
        /\ Takes(line, "blockquote")
        /\ UNCHANGED <<segments, current_speaker, current_lines, in_code_block, joined>>

TableLine ==
    \E line \in LineSet :
        /\ Takes(line, "table")
        /\ UNCHANGED <<segments, current_speaker, current_lines, in_code_block, joined>>

RuleLine ==
    \E line \in LineSet :
        /\ Takes(line, "rule")
        /\ UNCHANGED <<segments, current_speaker, current_lines, in_code_block, joined>>

\* HeadingLine without the flush of line 111: the heading is only skipped
HeadingLineSkipped ==
    \E line \in LineSet :
        /\ Takes(line, "heading")
        /\ UNCHANGED <<segments, current_speaker, current_lines, in_code_block, joined>>

HeadingLine ==
    \E line \in LineSet :
        /\ Takes(line, "heading")
        /\ flush
        /\ current_speaker' = None
        /\ current_lines' = <<>>
        /\ UNCHANGED in_code_block

InterviewerLine ==
    \E line \in LineSet :
        /\ Takes(line, "interviewer")
        /\ flush
        /\ current_speaker' = "interviewer"
        /\ current_lines' = FirstFragment(InterviewerText(line))
        /\ UNCHANGED in_code_block

\* CandidateLine with the speaker of the interviewer branch
CandidateLineAsInterviewer ==
    \E line \in LineSet :
        /\ Takes(line, "candidate")
        /\ flush
        /\ current_speaker' = "interviewer"
        /\ current_lines' = FirstFragment(CandidateText(line))
        /\ UNCHANGED in_code_block

CandidateLine ==
    \E line \in LineSet :
        /\ Takes(line, "candidate")
        /\ flush
        /\ current_speaker' = "candidate"
        /\ current_lines' = FirstFragment(CandidateText(line))
        /\ UNCHANGED in_code_block

OtherLine ==
    \E line \in LineSet :
        /\ Takes(line, "other")
        /\ current_lines' = AppendFragment(current_speaker, current_lines, line)
        /\ UNCHANGED <<segments, current_speaker, in_code_block, joined>>

\* EndOfInput that does not flush while inside a code block
EndOfInputNoFlushInCode ==
    /\ pc = "loop"
    /\ IF in_code_block THEN UNCHANGED <<segments, joined>> ELSE flush
    /\ current_speaker' = None
    /\ current_lines' = <<>>
    /\ pc' = "returned"
    /\ UNCHANGED <<lines_read, in_code_block>>
    /\ UNCHANGED generate_vars

\* lines 130-131: the flush after the loop, and the return
EndOfInput ==
    /\ pc = "loop"
    /\ flush
    /\ current_speaker' = None
    /\ current_lines' = <<>>
    /\ pc' = "returned"
    /\ UNCHANGED <<lines_read, in_code_block>>
    /\ UNCHANGED generate_vars

NextParse ==
    \/ FenceLine
    \/ CodeBlockLine
    \/ BlockquoteLine
    \/ TableLine
    \/ RuleLine
    \/ HeadingLine
    \/ InterviewerLine
    \/ CandidateLine
    \/ OtherLine
    \/ EndOfInput

Spec == InitParse /\ [][NextParse]_vars

\* ------------------------------------------------------------------------
\* The document as the claims describe it
\* ------------------------------------------------------------------------

\* number of fence lines among the first k lines of doc
FenceCount(doc, k) == Cardinality({j \in 1..k : KindTable[doc[j]][FALSE] = "fence"})

\* line k of doc lies after an odd number of fence lines
InsideFence(doc, k) == FenceCount(doc, k - 1) % 2 = 1

\* what line k of doc is, given the fences before it
DocKind(doc, k) == KindTable[doc[k]][InsideFence(doc, k)]

\* the kinds of all lines of doc
DocKinds(doc) == [k \in 1..Len(doc) |-> DocKind(doc, k)]

\* the first line after k that ends the turn opened at k, Len+1 if none
TurnEnd(kinds, k) ==
    LET ends == {j \in (k + 1)..Len(kinds) :
                    kinds[j] \in {"heading", "interviewer", "candidate"}}
    IN  IF ends = {} THEN Len(kinds) + 1 ELSE CHOOSE j \in ends : \A e \in ends : j <= e

\* the fragments the ordinary lines j .. stop-1 contribute
RECURSIVE Continuation(_, _, _, _)
Continuation(doc, kinds, j, stop) ==
    IF j >= stop THEN <<>>
    ELSE LET f == strip_list_marker(Strip(doc[j]))
         IN  (IF kinds[j] = "other" /\ f # <<>> THEN <<f>> ELSE <<>>)
             \o Continuation(doc, kinds, j + 1, stop)

\* the normalized text of the turn the marker line k opens
TurnText(doc, kinds, k) ==
    LET first == IF kinds[k] = "interviewer"
                 THEN InterviewerText(doc[k]) ELSE CandidateText(doc[k])
        frags == (IF first # <<>> THEN <<first>> ELSE <<>>)
                 \o Continuation(doc, kinds, k + 1, TurnEnd(kinds, k))
    IN  clean_text(join_lines(frags))

\* the marker lines of doc whose turn has text
SpokenTurns(doc) ==
    LET kinds == DocKinds(doc)
    IN  {k \in 1..Len(doc) :
            kinds[k] \in {"interviewer", "candidate"} /\ TurnText(doc, kinds, k) # <<>>}

\* the speakers of the marker lines k.. of doc that are in turns, in order
RECURSIVE TurnSpeakers(_, _, _)
TurnSpeakers(doc, turns, k) ==
    IF k > Len(doc) THEN <<>>
    ELSE (IF k \in turns THEN <<DocKind(doc, k)>> ELSE <<>>)
         \o TurnSpeakers(doc, turns, k + 1)

Speakers(segs) == [k \in 1..Len(segs) |-> segs[k][1]]

\* ------------------------------------------------------------------------
\* Claims about parse_dialogue
\* ------------------------------------------------------------------------

\* C1: the speakers of the utterances parse_dialogue returns are, in order,
\* the speakers of the recognized marker lines whose turn has non-empty
\* normalized text; one interviewer line then one candidate line, each with
\* text, give exactly two utterances, interviewer then candidate.
C1_SpeakersInDocumentOrder ==
    pc = "returned" =>
        LET turns == SpokenTurns(lines_read)
        IN  /\ Speakers(segments) = TurnSpeakers(lines_read, turns, 1)
            /\ (/\ Len(lines_read) = 2
                /\ DocKind(lines_read, 1) = "interviewer"
                /\ DocKind(lines_read, 2) = "candidate"
                /\ turns = {1, 2})
               => Speakers(segments) = <<"interviewer", "candidate">>

C1_Witness ==
    /\ pc = "returned"
    /\ lines_read = <<L_IntHello, L_CandHi>>
    /\ segments = << <<"interviewer", <<"Hello", ".">>>>, <<"candidate", <<"Hi">>>> >>

\* C2: a step that takes a fence line, or a line while the code-block flag
\* is set, leaves the utterances, the active speaker and the fragment buffer
\* as they were.
C2_FencedLinesIgnored ==
    [][(pc = "loop" /\ pc' = "loop" /\ (in_code_block \/ in_code_block'))
         => UNCHANGED <<segments, current_speaker, current_lines>>]_vars

C2_Witness ==
    /\ pc = "loop"
    /\ ~in_code_block
    /\ Len(lines_read) = 4
    /\ lines_read[1] = L_IntHello
    /\ IsFenceLine(lines_read[2])
    /\ lines_read[3] \in {L_CandHi, L_Heading}
    /\ IsFenceLine(lines_read[4])
    /\ current_speaker = "interviewer"
    /\ current_lines = << <<"Hello", ".">> >>
    /\ segments = <<>>

\* C3: a heading outside a code fence splits the document: the result is the
\* utterances of the lines before it followed by the utterances of the lines
\* after it, each part parsed on its own from "no active speaker".
C3_HeadingSplitsDocument ==
    pc = "returned" =>
        \A h \in 1..Len(lines_read) :
            DocKind(lines_read, h) = "heading" =>
                segments = parse_dialogue(SubSeq(lines_read, 1, h - 1))
                           \o parse_dialogue(From(lines_read, h + 1))

C3_Witness ==
    /\ pc = "returned"
    /\ lines_read = <<L_IntHello, L_Heading, L_Item, L_IntHello>>
    /\ segments = << <<"interviewer", <<"Hello", ".">>>>,
                     <<"interviewer", <<"Hello", ".">>>> >>

\* the glyphs and labels of a candidate marker
CandidateMarks == {"MAN", "PERSON", "Candidate", "StaffEngineer"}

\* the text after the bolded label of a marker line (after the first :**)
AfterLabel(line) ==
    LET ends == {k \in 1..Len(line) : line[k] = ":" /\ RunAt(line, k + 1, "*", 2)}
    IN  IF ends = {} THEN Strip(line)
        ELSE Strip(From(line, (CHOOSE k \in ends : \A e \in ends : k <= e) + 3))

\* C4: after a candidate marker line, with either glyph and either label, the
\* active speaker is candidate and the only fragment is the rest of the line
\* after the label; no candidate utterance holds a candidate glyph or label.
C4_CandidatePrefixStripped ==
    /\ (pc = "loop" /\ lines_read # <<>>
          /\ DocKind(lines_read, Len(lines_read)) = "candidate") =>
           /\ current_speaker = "candidate"
           /\ current_lines = FirstFragment(AfterLabel(lines_read[Len(lines_read)]))
    /\ \A k \in 1..Len(segments) :
           segments[k][1] = "candidate" =>
               \A tok \in CandidateMarks : ~Has(segments[k][2], tok)

\* C5: every emitted text is non-empty and does not begin with a list marker.
C5_NoLeadingListMarker ==
    \A k \in 1..Len(segments) :
        /\ segments[k][2] # <<>>
        /\ strip_list_marker(segments[k][2]) = segments[k][2]

\* the separator the joining rule puts after fragment prev
Separator(prev) ==
    IF prev[Len(prev)] \in {".", "!", "?", ":", ","} THEN <<" ">> ELSE <<".", " ">>

\* fragments 1..k of lines with the rule's separators between them
RECURSIVE Joined(_, _)
Joined(lines, k) ==
    IF k = 1 THEN lines[1]
    ELSE Joined(lines, k - 1) \o Separator(lines[k - 1]) \o lines[k]

\* C9: flush joins the fragments in order, a space after a fragment that
\* ends in . ! ? : or , and ". " after any other.
C9_JoinRule ==
    joined.lines # <<>> => joined.text = Joined(joined.lines, Len(joined.lines))

C9_Witness ==
    /\ joined.lines = << <<"Hi">>, <<"first", ",">>, <<"first", ",">> >>
    /\ joined.text = <<"Hi", ".", " ", "first", ",", " ", "first", ",">>

\* the last fence line of doc
LastFence(doc) ==
    CHOOSE k \in 1..Len(doc) :
        IsFenceLine(doc[k]) /\ \A j \in (k + 1)..Len(doc) : ~IsFenceLine(doc[j])

\* C10: the code-block flag is the parity of the fence lines read, and with
\* an odd number of them the result is that of the lines before the last
\* fence alone.
C10_OddFenceCount ==
    /\ in_code_block = (FenceCount(lines_read, Len(lines_read)) % 2 = 1)
    /\ (pc = "returned" /\ in_code_block) =>
           segments = parse_dialogue(SubSeq(lines_read, 1, LastFence(lines_read) - 1))

C10_Witness ==
    /\ pc = "returned"
    /\ lines_read = <<L_IntHello, L_Fence, L_CandHi>>
    /\ segments = << <<"interviewer", <<"Hello", ".">>>> >>

\* ------------------------------------------------------------------------
\* kokoro_generate and elevenlabs_generate
\* ------------------------------------------------------------------------

KOKORO_SAMPLE_RATE == 24000

\* an AudioSegment is modelled by its frames, one per millisecond (the unit
\* of duration= in AudioSegment.silent)
SEGMENT_FRAMES_PER_SECOND == 1000

\* longest document handed to a generate function
MaxDocLines == 3

\* longest pause, in milliseconds
MaxPause == 2

DocLineSet == {L_IntHello, L_CandHi, L_IntBare}

Documents == UNION {[1..n -> DocLineSet] : n \in 0..MaxDocLines}

\* np.concatenate(arrays) and b"".join(chunks)
RECURSIVE Concatenate(_)
Concatenate(arrays) ==
    IF arrays = <<>> THEN <<>> ELSE Head(arrays) \o Concatenate(Tail(arrays))

Zeros(n) == [k \in 1..n |-> 0]

\* what pipeline(text, voice) can yield for segment k: no audio at all, or
\* one or two chunks; the samples of segment k have the value k
KokoroResults(k) == {<<>>, << <<k>> >>, << <<k>>, <<k, k>> >>}

\* what text_to_speech.convert can yield for segment k: one or two chunks of
\* MP3 data, each byte standing for one frame of value k
ElevenLabsResults(k) ==
    {<< <<[mp3 |-> k]>> >>, << <<[mp3 |-> k]>>, <<[mp3 |-> k]>> >>}

\* AudioSegment.from_mp3(io.BytesIO(clip_bytes))
from_mp3(clip_bytes) == [k \in 1..Len(clip_bytes) |-> clip_bytes[k].mp3]

\* voice = interviewer_voice if speaker == "interviewer" else candidate_voice
VoiceOf(speaker) ==
    IF speaker = "interviewer" THEN "interviewer_voice" ELSE "candidate_voice"

\* the call made for segment k, with what it returned
SynthesisCall(k, raised, chunks) ==
    [text |-> segments[k][2], voice |-> VoiceOf(segments[k][1]),
     raised |-> raised, chunks |-> chunks]

\* np.zeros(int(KOKORO_SAMPLE_RATE * pause_ms / 1000))
KokoroSilence(pause) == Zeros((KOKORO_SAMPLE_RATE * pause) \div 1000)

\* KokoroCombined with the silence only between the clips
KokoroCombinedNoTrailingSilence(cs, pause) ==
    Concatenate([j \in 1..(2 * Len(cs) - 1) |->
                    IF j % 2 = 1 THEN cs[(j + 1) \div 2] ELSE KokoroSilence(pause)])

\* np.concatenate([x for clip in clips for x in (clip, silence)])
KokoroCombined(cs, pause) ==
    Concatenate([j \in 1..(2 * Len(cs)) |->
                    IF j % 2 = 1 THEN cs[(j + 1) \div 2] ELSE KokoroSilence(pause)])

\* AudioSegment.silent(duration=pause_ms)
SilentSegment(pause) == Zeros((SEGMENT_FRAMES_PER_SECOND * pause) \div 1000)

\* the loop of lines 253-254, started from combined
RECURSIVE ElevenLabsCombined(_, _, _)
ElevenLabsCombined(acc, cs, pause) ==
    IF cs = <<>> THEN acc
    ELSE ElevenLabsCombined(acc \o (from_mp3(Head(cs)) \o SilentSegment(pause)),
                            Tail(cs), pause)

\* main() has chosen the backend and calls its generate function
InitGenerate ==
    /\ pc = "generate"
    /\ backend \in {"kokoro", "elevenlabs"}
    /\ pause_ms \in 0..MaxPause
    /\ md_text \in Documents
    /\ lines_read = <<>>
    /\ segments = <<>>
    /\ current_speaker = None
    /\ current_lines = <<>>
    /\ in_code_block = FALSE
    /\ joined = [lines |-> <<>>, text |-> <<>>]
    /\ i = 0
    /\ clips = <<>>
    /\ warnings = <<>>
    /\ calls = <<>>
    /\ combined = <<>>
    /\ exit_status = 0

unchanged_by_generate ==
    UNCHANGED <<lines_read, current_speaker, current_lines, in_code_block, joined,
                backend, pause_ms, md_text>>

\* segments = parse_dialogue(md_text), some segments found
ParseNotes ==
    /\ pc = "generate"
    /\ parse_dialogue(md_text) # <<>>
    /\ segments' = parse_dialogue(md_text)
    /\ i' = 1
    /\ pc' = "synth"
    /\ UNCHANGED <<clips, warnings, calls, combined, exit_status>>
    /\ unchanged_by_generate

\* if not segments: sys.exit(1)
NoSegments ==
    /\ pc = "generate"
    /\ parse_dialogue(md_text) = <<>>
    /\ segments' = <<>>
    /\ exit_status' = 1
    /\ pc' = "exit"
    /\ UNCHANGED <<i, clips, warnings, calls, combined>>
    /\ unchanged_by_generate

\* the loop body is entered for segment i
InLoop(which) ==
    /\ pc = "synth"
    /\ backend = which
    /\ i <= Len(segments)
    /\ i' = i + 1
    /\ pc' = "synth"
    /\ UNCHANGED <<segments, combined, exit_status>>
    /\ unchanged_by_generate

\* lines 185-187, the pipeline yields audio
KokoroClip ==
    \E chunks \in KokoroResults(i) \ {<<>>} :
        /\ InLoop("kokoro")
        /\ clips' = Append(clips, Concatenate(chunks))
        /\ calls' = Append(calls, SynthesisCall(i, FALSE, chunks))
        /\ UNCHANGED warnings

\* lines 185-186, the pipeline yields nothing: "if chunks" is false
KokoroNoChunks ==
    /\ InLoop("kokoro")
    /\ <<>> \in KokoroResults(i)
    /\ calls' = Append(calls, SynthesisCall(i, FALSE, <<>>))
    /\ UNCHANGED <<clips, warnings>>

\* KokoroRaises ending the loop at the first failure
KokoroRaisesAndStops ==
    /\ pc = "synth"
    /\ backend = "kokoro"
    /\ i <= Len(segments)
    /\ i' = Len(segments) + 1
    /\ pc' = "synth"
    /\ warnings' = Append(warnings, i)
    /\ calls' = Append(calls, SynthesisCall(i, TRUE, <<>>))
    /\ UNCHANGED <<segments, combined, exit_status, clips>>
    /\ unchanged_by_generate

\* lines 188-189, the pipeline or np.concatenate raises
KokoroRaises ==
    /\ InLoop("kokoro")
    /\ warnings' = Append(warnings, i)
    /\ calls' = Append(calls, SynthesisCall(i, TRUE, <<>>))
    /\ UNCHANGED clips

\* lines 236-240
ElevenLabsClip ==
    \E chunks \in ElevenLabsResults(i) :
        /\ InLoop("elevenlabs")
        /\ clips' = Append(clips, Concatenate(chunks))
        /\ calls' = Append(calls, SynthesisCall(i, FALSE, chunks))
        /\ UNCHANGED warnings

\* lines 241-242
ElevenLabsRaises ==
    /\ InLoop("elevenlabs")
    /\ warnings' = Append(warnings, i)
    /\ calls' = Append(calls, SynthesisCall(i, TRUE, <<>>))
    /\ UNCHANGED clips

\* the synthesis loop is over
LoopDone == pc = "synth" /\ i = Len(segments) + 1

\* if not clips: sys.exit(1)
NoClips ==
    /\ LoopDone
    /\ clips = <<>>
    /\ exit_status' = 1
    /\ pc' = "exit"
    /\ UNCHANGED <<segments, i, clips, warnings, calls, combined>>
    /\ unchanged_by_generate

\* SaveKokoro without the test of line 191
SaveKokoroUnguarded ==
    /\ LoopDone
    /\ backend = "kokoro"
    /\ combined' = KokoroCombined(clips, pause_ms)
    /\ pc' = "saved"
    /\ UNCHANGED <<segments, i, clips, warnings, calls, exit_status>>
    /\ unchanged_by_generate

\* lines 195-199
SaveKokoro ==
    /\ LoopDone
    /\ backend = "kokoro"
    /\ clips # <<>>
    /\ combined' = KokoroCombined(clips, pause_ms)
    /\ pc' = "saved"
    /\ UNCHANGED <<segments, i, clips, warnings, calls, exit_status>>
    /\ unchanged_by_generate

\* lines 250-258
SaveElevenLabs ==
    /\ LoopDone
    /\ backend = "elevenlabs"
    /\ clips # <<>>
    /\ combined' = ElevenLabsCombined(<<>>, clips, pause_ms)
    /\ pc' = "saved"
    /\ UNCHANGED <<segments, i, clips, warnings, calls, exit_status>>
    /\ unchanged_by_generate

NextGenerate ==
    \/ ParseNotes
    \/ NoSegments
    \/ KokoroClip
    \/ KokoroNoChunks
    \/ KokoroRaises
    \/ ElevenLabsClip
    \/ ElevenLabsRaises
    \/ NoClips
    \/ SaveKokoro
    \/ SaveElevenLabs

SpecGenerate == InitGenerate /\ [][NextGenerate]_vars

\* ------------------------------------------------------------------------
\* Claims about the synthesis loop and the assembly
\* ------------------------------------------------------------------------

\* the calls ks of cs that satisfy Keep, in order (Keep is a set of indices)
RECURSIVE Chosen(_, _, _)
Chosen(cs, keep, k) ==
    IF k > Len(cs) THEN <<>>
    ELSE (IF k \in keep THEN <<k>> ELSE <<>>) \o Chosen(cs, keep, k + 1)

\* the segments whose call returned without raising
Succeeded == {k \in 1..Len(calls) : ~calls[k].raised}

\* the segments whose call raised
Failed == {k \in 1..Len(calls) : calls[k].raised}

\* the segments whose call returned audio
GaveAudio == {k \in Succeeded : calls[k].chunks # <<>>}

\* the audio the call for segment k returned, as one clip
ClipOf(k) == Concatenate(calls[k].chunks)

\* every segment was attempted, in document order, and every failure warned
AllAttempted ==
    /\ Len(calls) = Len(segments)
    /\ \A k \in 1..Len(calls) :
           /\ calls[k].text = segments[k][2]
           /\ calls[k].voice = VoiceOf(segments[k][1])
    /\ warnings = Chosen(calls, Failed, 1)

\* C6 as stated: after the loop the clips are those of the segments whose
\* synthesis succeeded, one each, in order, and a segment without a clip
\* produced a warning.
C6_ClipsAreTheSuccesses ==
    LoopDone =>
        /\ AllAttempted
        /\ clips = [n \in 1..Cardinality(Succeeded) |->
                       ClipOf(Chosen(calls, Succeeded, 1)[n])]
        /\ \A k \in 1..Len(segments) :
               (\A n \in 1..Len(clips) : clips[n] # ClipOf(k)) =>
                   \E w \in 1..Len(warnings) : warnings[w] = k

\* C6 amended: a failure is caught for its segment only and warned, every
\* segment is attempted; the clips are those of the segments whose synthesis
\* returned audio, one each, in order; a segment without a clip produced a
\* warning or, with Kokoro, returned no chunks.
C6_ClipsAreTheCallsWithAudio ==
    LoopDone =>
        /\ AllAttempted
        /\ clips = [n \in 1..Cardinality(GaveAudio) |->
                       ClipOf(Chosen(calls, GaveAudio, 1)[n])]
        /\ \A k \in 1..Len(segments) :
               k \notin GaveAudio =>
                   \/ \E w \in 1..Len(warnings) : warnings[w] = k
                   \/ backend = "kokoro" /\ k \in Succeeded /\ calls[k].chunks = <<>>
        /\ backend = "elevenlabs" => GaveAudio = Succeeded

C6_Witness ==
    /\ LoopDone
    /\ Len(segments) = 3
    /\ calls[1].raised
    /\ ~calls[2].raised /\ calls[2].chunks = <<>>
    /\ ~calls[3].raised /\ calls[3].chunks # <<>>
    /\ warnings = <<1>>
    /\ clips = <<ClipOf(3)>>

\* samples per second of the audio the backend assembles
RateOf(b) == IF b = "kokoro" THEN KOKORO_SAMPLE_RATE ELSE SEGMENT_FRAMES_PER_SECOND

\* the decoded audio of clip n
AudioOf(n) == IF backend = "kokoro" THEN clips[n] ELSE from_mp3(clips[n])

\* total length of the first n clips
RECURSIVE AudioLen(_)
AudioLen(n) == IF n = 0 THEN 0 ELSE AudioLen(n - 1) + Len(AudioOf(n))

C8_EmptyClipsGiveEmptyBuffer ==
    (pc \in {"saved", "exit"} /\ calls # <<>> /\ clips = <<>>) =>
        (pc = "saved" /\ combined = <<>>)

\* C8 amended: with an empty clip list nothing is assembled: the run ends
\* with exit status 1 and no output, and an output is only ever saved from a
\* non-empty clip list.
C8_EmptyClipsExit ==
    /\ (pc \in {"saved", "exit"} /\ clips = <<>>) =>
           (pc = "exit" /\ exit_status = 1 /\ combined = <<>>)
    /\ pc = "saved" => (clips # <<>> /\ exit_status = 0)

C8_Witness ==
    /\ pc = "exit"
    /\ exit_status = 1
    /\ Len(segments) = 2
    /\ Len(calls) = 2
    /\ clips = <<>>
    /\ combined = <<>>

=============================================================================
